---- MODULE Spec2Model ----
(***************************************************************************)
(* A model of src/main.py of ToneShiftingBot: the credential loader        *)
(* (load_password), the startup gate (main), the three message handlers    *)
(* (start, help, download_url) and the audio pipeline (download_audio,     *)
(* lower_pitch).                                                           *)
(*                                                                         *)
(* Strings are sequences of atoms.  An atom is a piece of text that the    *)
(* code never looks inside: "." and "/" and " " are atoms of their own,    *)
(* because rsplit('.'), the path operations and str.split() look for them. *)
(* The handlers are coroutines (async def): a handler gives up control     *)
(* only at an await, and every await of the file is a reply.  One action   *)
(* of the model is therefore "the pending await finishes (the reply is     *)
(* sent, or it raises) and the handler runs on to its next await";         *)
(* download_audio and lower_pitch hold no await and run inside one action. *)
(* Two handler slots stand for the most the framework may have in flight   *)
(* together.                                                               *)
(*                                                                         *)
(* What lies outside the file is an input: the network (the metadata probe *)
(* or the transfer fails), the signal library (load, shift or write        *)
(* fails), each reply (sent or raising), the answer of the identity        *)
(* endpoint, and what load_password finds in files, environment and        *)
(* prompt.  A successful transfer is taken to leave its file at the name   *)
(* line 150 computes, which is what the code's comments expect of the      *)
(* extraction library.                                                     *)
(***************************************************************************)
EXTENDS Integers, Sequences, FiniteSets, TLC

VARIABLES
    boot,      \* main() and load_password(): position, inputs, results
    files,     \* the paths that exist on disk (the downloads/ cache)
    hs,        \* the handler coroutines in flight, one record per slot
    handled,   \* how many updates the dispatcher has handed to a handler
    nxfer,     \* ghost: per path, how many transfers have written it
    nshift,    \* ghost: per path, how many pitch-shift writes have written it
    pipe       \* the pipeline run twice in a row (download_audio; lower_pitch)

vars == <<boot, files, hs, handled, nxfer, nshift, pipe>>

----------------------------------------------------------------------------
(* Strings *)

RECURSIVE LastIndexOf(_, _)
\* s.rfind(c) + 1: the place of the last atom c of s, 0 when there is none
LastIndexOf(s, c) ==
    IF s = <<>> THEN 0
    ELSE IF s[Len(s)] = c THEN Len(s)
    ELSE LastIndexOf(SubSeq(s, 1, Len(s) - 1), c)

\* s.rsplit('.', 1)[0]
RSplitDot(s) ==
    LET i == LastIndexOf(s, ".")
    IN  IF i = 0 THEN s ELSE SubSeq(s, 1, i - 1)

\* pathlib: Path(p).name, the text after the last "/"
PathName(p) == SubSeq(p, LastIndexOf(p, "/") + 1, Len(p))

\* pathlib: str(Path(p).parent) for a relative p; "." is written <<>> here
PathParent(p) ==
    LET i == LastIndexOf(p, "/")
    IN  IF i = 0 THEN <<>> ELSE SubSeq(p, 1, i - 1)

\* pathlib: Path(p).parent.name (the name of Path(".") is the empty string)
PathParentName(p) == PathName(PathParent(p))

\* os.path.join(a, b) for a relative b
os_path_join(a, b) ==
    IF a = <<>> THEN b
    ELSE IF a[Len(a)] = "/" THEN a \o b
    ELSE a \o <<"/">> \o b

DigitAtom(d) == <<"0", "1", "2", "3", "4", "5", "6", "7", "8", "9">>[d + 1]

RECURSIVE DecimalStr(_)
\* str(n) for n >= 0
DecimalStr(n) ==
    IF n < 10 THEN <<DigitAtom(n)>>
    ELSE DecimalStr(n \div 10) \o <<DigitAtom(n % 10)>>

abs(n) == IF n < 0 THEN -n ELSE n

IsSpace(c) == c \in {" ", "\n"}

RECURSIVE SplitFrom(_, _, _)
\* str.split(): cur is the token being read, acc the tokens read so far
SplitFrom(s, cur, acc) ==
    IF s = <<>> THEN (IF cur = <<>> THEN acc ELSE Append(acc, cur))
    ELSE IF IsSpace(Head(s))
         THEN SplitFrom(Tail(s), <<>>, IF cur = <<>> THEN acc ELSE Append(acc, cur))
         ELSE SplitFrom(Tail(s), Append(cur, Head(s)), acc)

\* text.split()
Split(s) == SplitFrom(s, <<>>, <<>>)

RECURSIVE LStrip(_)
LStrip(s) == IF s # <<>> /\ IsSpace(Head(s)) THEN LStrip(Tail(s)) ELSE s

RECURSIVE RStrip(_)
RStrip(s) ==
    IF s # <<>> /\ IsSpace(s[Len(s)]) THEN RStrip(SubSeq(s, 1, Len(s) - 1)) ELSE s

\* str.strip()
Strip(s) == RStrip(LStrip(s))

DigitValue(c) ==
    CASE c = "0" -> 0 [] c = "1" -> 1 [] c = "2" -> 2 [] c = "3" -> 3
      [] c = "4" -> 4 [] c = "5" -> 5 [] c = "6" -> 6 [] c = "7" -> 7
      [] c = "8" -> 8 [] c = "9" -> 9 [] OTHER -> -1

IsDigits(s) == s # <<>> /\ \A i \in 1..Len(s) : DigitValue(s[i]) >= 0

RECURSIVE DigitsValue(_)
DigitsValue(s) ==
    IF s = <<>> THEN 0
    ELSE 10 * DigitsValue(SubSeq(s, 1, Len(s) - 1)) + DigitValue(s[Len(s)])

\* int(tok): an optional sign and one or more digits; anything else is a
\* ValueError
int(tok) ==
    LET signed == tok # <<>> /\ Head(tok) \in {"+", "-"}
        body   == IF signed THEN Tail(tok) ELSE tok
    IN  IF IsDigits(body)
        THEN [ok |-> TRUE,
              val |-> IF signed /\ Head(tok) = "-" THEN -DigitsValue(body)
                      ELSE DigitsValue(body)]
        ELSE [ok |-> FALSE, val |-> 0]

----------------------------------------------------------------------------
(* load_password and main *)

\* What load_password finds around it: the two files, what `age -d` does
\* (its exit and its stdout), the TOKEN variable and what the operator would
\* type at the prompt.
KeyFileCases == BOOLEAN
TokenFileCases == BOOLEAN
AgeCases ==
    {[ok |-> FALSE, stdout |-> <<>>],
     [ok |-> TRUE, stdout |-> <<"t", "\n">>],
     [ok |-> TRUE, stdout |-> <<" ", "t", " ", "k", "\n">>],
     [ok |-> TRUE, stdout |-> <<"\n">>]}
EnvCases ==
    {[set |-> FALSE, val |-> <<>>], [set |-> TRUE, val |-> <<>>],
     [set |-> TRUE, val |-> <<"e">>], [set |-> TRUE, val |-> <<"e", " ">>]}
PromptCases == {<<"p">>, <<" ", "p">>}

\* bool(s) of a str, or of None: os.getenv gives None for an unset variable
Truthy(env) == env.set /\ env.val # <<>>

load_password_envIfSet(keyExists, tokenExists, age, env, typed) ==
    IF ~tokenExists \/ ~keyExists
    THEN IF env.set
         THEN [raised |-> FALSE, token |-> env.val, prompted |-> FALSE]
         ELSE [raised |-> FALSE, token |-> typed, prompted |-> TRUE]
    ELSE IF ~age.ok
         THEN [raised |-> TRUE, token |-> <<>>, prompted |-> FALSE]
         ELSE [raised |-> FALSE, token |-> Strip(age.stdout), prompted |-> FALSE]

\* load_password(): `os.getenv("TOKEN") or getpass(...)` takes the prompt
\* when TOKEN is unset and also when it is set to the empty string; a
\* CalledProcessError of `age` is raised again as NotImplementedError
load_password(keyExists, tokenExists, age, env, typed) ==
    IF ~tokenExists \/ ~keyExists
    THEN IF Truthy(env)
         THEN [raised |-> FALSE, token |-> env.val, prompted |-> FALSE]
         ELSE [raised |-> FALSE, token |-> typed, prompted |-> TRUE]
    ELSE IF ~age.ok
         THEN [raised |-> TRUE, token |-> <<>>, prompted |-> FALSE]
         ELSE [raised |-> FALSE, token |-> Strip(age.stdout), prompted |-> FALSE]

\* What the identity endpoint can answer: the request itself fails, or it
\* returns a status and a body whose "ok" is true, false or missing (a body
\* that is not JSON makes query.json() raise).
StatusCases == {200, 401, 404}
BodyCases == {"ok_true", "ok_false", "ok_missing", "not_json"}

main_gate_flipped(status, body) ==
    IF status # 200 THEN "AssertionError"
    ELSE IF body = "not_json" THEN "raised"
    ELSE IF body # "ok_true" THEN "returned"
    ELSE "build"

\* main(), lines 27-30: where main goes once the query has answered
main_gate(status, body) ==
    IF status # 200 THEN "AssertionError"
    ELSE IF body = "not_json" THEN "raised"
    ELSE IF body = "ok_true" THEN "returned"
    ELSE "build"

\* main() once it has reached run_polling: the state the handlers run in
BootPolling ==
    [pc |-> "polling", keyExists |-> FALSE, tokenExists |-> FALSE,
     age |-> [ok |-> FALSE, stdout |-> <<>>], env |-> [set |-> TRUE, val |-> <<"e">>],
     typed |-> <<"p">>, loaded |-> TRUE, token |-> <<"e">>, prompted |-> FALSE,
     queried |-> TRUE, queryToken |-> <<"e">>, status |-> 200, body |-> "ok_false",
     printed |-> <<"Ready">>, registered |-> TRUE]

BootInit ==
    \E k \in KeyFileCases, t \in TokenFileCases, a \in AgeCases,
       e \in EnvCases, p \in PromptCases :
        boot = [pc |-> "load_password", keyExists |-> k, tokenExists |-> t, age |-> a,
                env |-> e, typed |-> p, loaded |-> FALSE, token |-> <<>>,
                prompted |-> FALSE, queried |-> FALSE, queryToken |-> <<>>,
                status |-> 0, body |-> "none", printed |-> <<>>, registered |-> FALSE]

\* main() and load_password touch neither the disk nor a handler
BootFrame == UNCHANGED <<files, hs, handled, nxfer, nshift, pipe>>

\* main(), line 25
LoadPassword ==
    /\ BootFrame
    /\ boot.pc = "load_password"
    /\ LET r == load_password(boot.keyExists, boot.tokenExists, boot.age,
                              boot.env, boot.typed)
       IN  boot' = [boot EXCEPT !.pc = IF r.raised THEN "raised" ELSE "getMe",
                                !.loaded = ~r.raised,
                                !.token = r.token,
                                !.prompted = r.prompted]

\* main(), line 26: requests.get(...) answers
GetMe ==
    /\ BootFrame
    /\ boot.pc = "getMe"
    /\ \E s \in StatusCases, b \in BodyCases :
        boot' = [boot EXCEPT !.pc = "gate", !.queried = TRUE,
                             !.queryToken = boot.token, !.status = s, !.body = b]

\* main(), line 26: requests.get(...) raises (no connection)
GetMeFails ==
    /\ BootFrame
    /\ boot.pc = "getMe"
    /\ boot' = [boot EXCEPT !.pc = "raised", !.queried = TRUE,
                            !.queryToken = boot.token]

\* main(), lines 27-30
Gate ==
    /\ BootFrame
    /\ boot.pc = "gate"
    /\ LET to == main_gate(boot.status, boot.body)
       IN  boot' = [boot EXCEPT !.pc = to,
                                !.printed = IF to = "returned"
                                            THEN Append(@, "already running")
                                            ELSE @]

\* main(), lines 32-37
BuildAndPoll ==
    /\ BootFrame
    /\ boot.pc = "build"
    /\ boot' = [boot EXCEPT !.pc = "polling", !.registered = TRUE,
                            !.printed = Append(@, "Ready")]

----------------------------------------------------------------------------
(* The audio pipeline: download_audio and lower_pitch *)

\* The URLs the extraction library knows and the title it reports for each;
\* for any other token extract_info raises.  Two of the titles differ only
\* after their last ".", which rsplit('.', 1) cuts off.
KnownUrls == {<<"u">>, <<"v">>, <<"w">>}
Title(url) ==
    CASE url = <<"u">> -> <<"a">>
      [] url = <<"v">> -> <<"a", ".", "b">>
      [] url = <<"w">> -> <<"b">>

\* What the network does to one call of download_audio, and what the signal
\* library does to one call of lower_pitch
NetCases == {"ok", "probe_fails", "transfer_fails"}
DspCases == {"ok", "fails"}

\* download_audio's default output_path
DefaultOutputPath == <<"downloads">>

\* ydl.prepare_filename(info) under 'outtmpl': f'{output_path}/%(title)s'
prepare_filename(output_path, title) == output_path \o <<"/">> \o title

\* line 150: filename.rsplit('.', 1)[0] + ".mp3"
mp3_filename(output_path, title) ==
    RSplitDot(prepare_filename(output_path, title)) \o <<".", "mp3">>

os_path_exists_never(disk, p) == FALSE

\* os.path.exists(p)
os_path_exists(disk, p) == p \in disk

\* download_audio(yt_url, output_path), lines 145-155.  The transfer of line
\* 154 is taken to leave its file at `filename`, as the code's comments say
\* it does ("Save as title.mp3").
download_audio(yt_url, output_path, disk, net) ==
    IF yt_url \notin KnownUrls \/ net = "probe_fails"
    THEN [raised |-> TRUE, err |-> "DownloadError", path |-> <<>>, disk |-> disk,
          transferred |-> FALSE]
    ELSE LET filename == mp3_filename(output_path, Title(yt_url))
         IN  IF os_path_exists(disk, filename)
             THEN [raised |-> FALSE, err |-> "", path |-> filename, disk |-> disk,
                   transferred |-> FALSE]
             ELSE IF net = "transfer_fails"
             THEN [raised |-> TRUE, err |-> "DownloadError", path |-> <<>>,
                   disk |-> disk, transferred |-> FALSE]
             ELSE [raised |-> FALSE, err |-> "", path |-> filename,
                   disk |-> disk \cup {filename}, transferred |-> TRUE]

\* line 175: f"(ST {'+' if semitones > 0 else '-'}{abs(semitones)}) {name}"
shifted_name(name, semitones) ==
    <<"(ST ", IF semitones > 0 THEN "+" ELSE "-">> \o DecimalStr(abs(semitones))
        \o <<") ">> \o name

\* line 175: os.path.join(audio_file.parent.name, ...)
output_file_of(audio_file, semitones) ==
    os_path_join(PathParentName(audio_file),
                 shifted_name(PathName(audio_file), semitones))

lower_pitch_noZeroCase(audio_file, semitones, disk, dsp) ==
    LET output_file == output_file_of(audio_file, semitones)
    IN  IF os_path_exists(disk, output_file)
        THEN [raised |-> FALSE, err |-> "", path |-> output_file, disk |-> disk,
              shifted |-> FALSE]
        ELSE IF ~os_path_exists(disk, audio_file) \/ dsp = "fails"
        THEN [raised |-> TRUE, err |-> "LibrosaError", path |-> <<>>, disk |-> disk,
              shifted |-> FALSE]
        ELSE [raised |-> FALSE, err |-> "", path |-> output_file,
              disk |-> disk \cup {output_file}, shifted |-> TRUE]

lower_pitch_noReuse(audio_file, semitones, disk, dsp) ==
    IF semitones = 0
    THEN [raised |-> FALSE, err |-> "", path |-> audio_file, disk |-> disk,
          shifted |-> FALSE]
    ELSE LET output_file == output_file_of(audio_file, semitones)
         IN  IF ~os_path_exists(disk, audio_file) \/ dsp = "fails"
             THEN [raised |-> TRUE, err |-> "LibrosaError", path |-> <<>>,
                   disk |-> disk, shifted |-> FALSE]
             ELSE [raised |-> FALSE, err |-> "", path |-> output_file,
                   disk |-> disk \cup {output_file}, shifted |-> TRUE]

\* lower_pitch(audio_file, semitones), lines 172-187: librosa.load raises
\* when the input file is missing; load, pitch_shift and sf.write can fail
lower_pitch(audio_file, semitones, disk, dsp) ==
    IF semitones = 0
    THEN [raised |-> FALSE, err |-> "", path |-> audio_file, disk |-> disk,
          shifted |-> FALSE]
    ELSE LET output_file == output_file_of(audio_file, semitones)
         IN  IF os_path_exists(disk, output_file)
             THEN [raised |-> FALSE, err |-> "", path |-> output_file, disk |-> disk,
                   shifted |-> FALSE]
             ELSE IF ~os_path_exists(disk, audio_file) \/ dsp = "fails"
             THEN [raised |-> TRUE, err |-> "LibrosaError", path |-> <<>>,
                   disk |-> disk, shifted |-> FALSE]
             ELSE [raised |-> FALSE, err |-> "", path |-> output_file,
                   disk |-> disk \cup {output_file}, shifted |-> TRUE]

\* ghost counters: a function from the paths written so far to a count
Count(f, p) == IF p \in DOMAIN f THEN f[p] ELSE 0
Bump(f, p) == [q \in DOMAIN f \cup {p} |-> Count(f, q) + IF q = p THEN 1 ELSE 0]
NoCounts == [q \in {} |-> 0]

----------------------------------------------------------------------------
(* The handlers: start, help, download_url *)

\* The handler coroutines that can be in flight together
Slots == {"h1", "h2"}

\* How many updates the dispatcher hands out in one run of the model
MaxUpdates == 3

\* The free-text messages the model sends: a URL alone, a URL and an offset
\* (signed, zero, two digits, not a number), three tokens, an unknown URL,
\* and white space alone
Texts ==
    {<<"u">>, <<"v">>, <<"w">>, <<"x">>, <<" ">>,
     <<"u", " ", "1">>, <<"u", " ", "-", "1">>, <<"u", " ", "+", "1", "2">>,
     <<"v", " ", "1">>, <<"u", " ", "0">>, <<"u", " ", "-", "0">>,
     <<"u", " ", "x">>, <<"u", " ", "1", " ", "x">>, <<"u", " ", "x", " ", "1">>}

IntroText == <<"Send me a URL, and I'll download the audio for you!">>
UsageText == <<"Your messages should have the following format: ...">>
InvalidText == <<"Invalid text format. It must be a URL only or a URL plus a number indicating the tone shift.">>
NoticeText(path) == <<"Downloaded content: ">> \o PathName(path)
ErrorText(e) == <<"Error: ", e>>

TextReply(body) == [kind |-> "text", body |-> body]
AudioReply(path) == [kind |-> "audio", body |-> path]

IdleSlot ==
    [pc |-> "idle", kind |-> "none", text |-> <<>>, parsed |-> FALSE, semitones |-> 0,
     audio_path |-> <<>>, processed_file |-> <<>>, err |-> "", replies |-> <<>>,
     raised |-> FALSE, transferred |-> FALSE, shifted |-> FALSE]

semitones_of_default(parts) ==
    IF Len(parts) = 2 THEN int(parts[2]) ELSE [ok |-> TRUE, val |-> -2]

semitones_of_second(parts) ==
    IF Len(parts) >= 2 THEN int(parts[2]) ELSE [ok |-> TRUE, val |-> 0]

\* line 108: int(parts[1]) if len(parts) == 2 else 0  (Python counts from 0)
semitones_of(parts) ==
    IF Len(parts) = 2 THEN int(parts[2]) ELSE [ok |-> TRUE, val |-> 0]

\* download_url, lines 107-111: the try block up to the await of line 111.
\* The result is the slot as it waits there, or at the await of line 118
\* when something raised, and the disk as download_audio left it.
try_to_notice(h, disk, net) ==
    LET parts == Split(h.text)
    IN  IF parts = <<>>
        THEN [slot |-> [h EXCEPT !.pc = "L118", !.err = "IndexError", !.raised = TRUE],
              disk |-> disk]
        ELSE LET n == semitones_of(parts)
             IN  IF ~n.ok
                 THEN [slot |-> [h EXCEPT !.pc = "L118", !.err = "ValueError",
                                          !.raised = TRUE],
                       disk |-> disk]
                 ELSE LET d == download_audio(parts[1], DefaultOutputPath, disk, net)
                      IN  IF d.raised
                          THEN [slot |-> [h EXCEPT !.pc = "L118", !.err = d.err,
                                                   !.raised = TRUE, !.parsed = TRUE,
                                                   !.semitones = n.val],
                                disk |-> disk]
                          ELSE [slot |-> [h EXCEPT !.pc = "L111", !.parsed = TRUE,
                                                   !.semitones = n.val,
                                                   !.audio_path = d.path,
                                                   !.transferred = d.transferred],
                                disk |-> d.disk]

\* download_url, lines 112-116: from the notice to the await of line 116
\* (open() raises when the file is missing)
notice_to_audio(h, disk, dsp) ==
    LET l == lower_pitch(h.audio_path, h.semitones, disk, dsp)
    IN  IF l.raised
        THEN [slot |-> [h EXCEPT !.pc = "L118", !.err = l.err, !.raised = TRUE],
              disk |-> disk]
        ELSE IF ~os_path_exists(l.disk, l.path)
        THEN [slot |-> [h EXCEPT !.pc = "L118", !.err = "FileNotFoundError",
                                 !.raised = TRUE, !.processed_file = l.path,
                                 !.shifted = l.shifted],
              disk |-> l.disk]
        ELSE [slot |-> [h EXCEPT !.pc = "L116", !.processed_file = l.path,
                                 !.shifted = l.shifted],
              disk |-> l.disk]

start_after_intro_returns == "returned"

\* start, line 81: after the introduction start awaits help(update, context),
\* whose only statement is the reply of line 89
start_after_intro == "L89"

\* One step of a handler changes its slot and the disk; the ghost counters
\* follow what the step wrote.
Step(s, r) ==
    /\ hs' = [hs EXCEPT ![s] = r.slot]
    /\ files' = r.disk
    /\ nxfer' = IF r.slot.transferred /\ ~hs[s].transferred
                THEN Bump(nxfer, r.slot.audio_path) ELSE nxfer
    /\ nshift' = IF r.slot.shifted /\ ~hs[s].shifted
                 THEN Bump(nshift, r.slot.processed_file) ELSE nshift
    /\ UNCHANGED <<boot, pipe, handled>>

Only(h) == [slot |-> h, disk |-> files]

Sent(h, reply) == [h EXCEPT !.replies = Append(@, reply)]

\* The dispatcher hands /start to start: it runs to the await of line 80
DispatchStart(s) ==
    /\ boot.pc = "polling" /\ hs[s].pc = "idle" /\ handled < MaxUpdates
    /\ hs' = [hs EXCEPT ![s] = [IdleSlot EXCEPT !.pc = "L80", !.kind = "start"]]
    /\ handled' = handled + 1
    /\ UNCHANGED <<boot, files, nxfer, nshift, pipe>>

\* The dispatcher hands /help to help: it runs to the await of line 89
DispatchHelp(s) ==
    /\ boot.pc = "polling" /\ hs[s].pc = "idle" /\ handled < MaxUpdates
    /\ hs' = [hs EXCEPT ![s] = [IdleSlot EXCEPT !.pc = "L89", !.kind = "help"]]
    /\ handled' = handled + 1
    /\ UNCHANGED <<boot, files, nxfer, nshift, pipe>>

\* The dispatcher hands a free-text message to download_url, lines 102-111:
\* with more than two tokens it runs to the await of line 104, otherwise
\* through the try block to the await of line 111 (or of line 118)
DispatchText(s) ==
    /\ boot.pc = "polling" /\ hs[s].pc = "idle" /\ handled < MaxUpdates
    /\ \E t \in Texts, net \in NetCases :
        LET h == [IdleSlot EXCEPT !.kind = "text", !.text = t]
            r == IF Len(Split(t)) > 2
                 THEN Only([h EXCEPT !.pc = "L104"])
                 ELSE try_to_notice(h, files, net)
        IN  /\ hs' = [hs EXCEPT ![s] = r.slot]
            /\ files' = r.disk
            /\ nxfer' = IF r.slot.transferred
                        THEN Bump(nxfer, r.slot.audio_path) ELSE nxfer
    /\ handled' = handled + 1
    /\ UNCHANGED <<boot, nshift, pipe>>

\* start, line 80: the introduction is sent, or reply_text raises
ReplyIntro(s) ==
    /\ hs[s].pc = "L80"
    /\ \E sent \in BOOLEAN :
        Step(s, Only(IF sent
                     THEN [Sent(hs[s], TextReply(IntroText)) EXCEPT
                              !.pc = start_after_intro]
                     ELSE [hs[s] EXCEPT !.pc = "propagated", !.raised = TRUE,
                                        !.err = "TelegramError"]))

\* help, line 89: the usage text is sent, or reply_text raises
ReplyUsage(s) ==
    /\ hs[s].pc = "L89"
    /\ \E sent \in BOOLEAN :
        Step(s, Only(IF sent
                     THEN [Sent(hs[s], TextReply(UsageText)) EXCEPT !.pc = "returned"]
                     ELSE [hs[s] EXCEPT !.pc = "propagated", !.raised = TRUE,
                                        !.err = "TelegramError"]))

\* download_url, line 104 (outside the try): the reply is sent and the
\* handler runs on into the try block, or reply_text raises
ReplyInvalid(s) ==
    /\ hs[s].pc = "L104"
    /\ \E sent \in BOOLEAN, net \in NetCases :
        Step(s, IF sent
                THEN try_to_notice(Sent(hs[s], TextReply(InvalidText)), files, net)
                ELSE Only([hs[s] EXCEPT !.pc = "propagated", !.raised = TRUE,
                                        !.err = "TelegramError"]))

\* download_url, line 111: the notice is sent and the handler runs on to the
\* await of line 116, or reply_text raises inside the try
ReplyNotice(s) ==
    /\ hs[s].pc = "L111"
    /\ \E sent \in BOOLEAN, dsp \in DspCases :
        Step(s, IF sent
                THEN notice_to_audio(Sent(hs[s], TextReply(NoticeText(hs[s].audio_path))),
                                     files, dsp)
                ELSE Only([hs[s] EXCEPT !.pc = "L118", !.raised = TRUE,
                                        !.err = "TelegramError"]))

\* download_url, line 116: the audio is sent, or reply_audio raises inside
\* the try
ReplyAudio(s) ==
    /\ hs[s].pc = "L116"
    /\ \E sent \in BOOLEAN :
        Step(s, Only(IF sent
                     THEN [Sent(hs[s], AudioReply(hs[s].processed_file)) EXCEPT
                              !.pc = "returned"]
                     ELSE [hs[s] EXCEPT !.pc = "L118", !.raised = TRUE,
                                        !.err = "TelegramError"]))

\* download_url, line 118 (the except clause): the error text is sent, or
\* reply_text raises out of the handler
ReplyError(s) ==
    /\ hs[s].pc = "L118"
    /\ \E sent \in BOOLEAN :
        Step(s, Only(IF sent
                     THEN [Sent(hs[s], TextReply(ErrorText(hs[s].err))) EXCEPT
                              !.pc = "returned"]
                     ELSE [hs[s] EXCEPT !.pc = "propagated"]))

\* The handler is over (it returned, or the framework logged what it
\* raised): the dispatcher can hand the next update to the slot
Finish(s) ==
    /\ hs[s].pc \in {"returned", "propagated"}
    /\ hs' = [hs EXCEPT ![s] = IdleSlot]
    /\ UNCHANGED <<boot, files, handled, nxfer, nshift, pipe>>

PipeIdle == [pc |-> "off"]

Init ==
    /\ boot = BootPolling
    /\ files = {}
    /\ hs = [s \in Slots |-> IdleSlot]
    /\ handled = 0
    /\ nxfer = NoCounts
    /\ nshift = NoCounts
    /\ pipe = PipeIdle

Next ==
    \E s \in Slots :
        \/ DispatchStart(s)
        \/ DispatchHelp(s)
        \/ DispatchText(s)
        \/ ReplyIntro(s)
        \/ ReplyUsage(s)
        \/ ReplyInvalid(s)
        \/ ReplyNotice(s)
        \/ ReplyAudio(s)
        \/ ReplyError(s)
        \/ Finish(s)

Spec == Init /\ [][Next]_vars

----------------------------------------------------------------------------
(* Startup alone: load_password, then main up to run_polling *)

InitBoot ==
    /\ BootInit
    /\ files = {}
    /\ hs = [s \in Slots |-> IdleSlot]
    /\ handled = 0
    /\ nxfer = NoCounts
    /\ nshift = NoCounts
    /\ pipe = PipeIdle

NextBoot ==
    \/ LoadPassword
    \/ GetMe
    \/ GetMeFails
    \/ Gate
    \/ BuildAndPoll

SpecBoot == InitBoot /\ [][NextBoot]_vars

----------------------------------------------------------------------------
(* The pipeline alone: download_audio then lower_pitch, run twice in a row *)

\* The largest offset, up or down, the pipeline is run with
MaxShift == 12

\* The output_path arguments download_audio is called with: its default and
\* a directory inside another
OutputPaths == {DefaultOutputPath, <<"media", "/", "downloads">>}

NoRun == [ok |-> FALSE, audio_file |-> <<>>, out |-> <<>>, transferred |-> FALSE,
          shifted |-> FALSE, before |-> {}]

\* download_audio(url, output_path) followed by lower_pitch(audio_file, n)
pipeline(url, output_path, n, disk, net, dsp) ==
    LET d == download_audio(url, output_path, disk, net)
    IN  IF d.raised
        THEN [ok |-> FALSE, audio_file |-> <<>>, out |-> <<>>, transferred |-> FALSE,
              shifted |-> FALSE, disk |-> disk]
        ELSE LET l == lower_pitch(d.path, n, d.disk, dsp)
             IN  [ok |-> ~l.raised, audio_file |-> d.path, out |-> l.path,
                  transferred |-> d.transferred, shifted |-> l.shifted,
                  disk |-> l.disk]

InitPipe ==
    /\ boot = BootPolling
    /\ hs = [s \in Slots |-> IdleSlot]
    /\ handled = 0
    /\ nxfer = NoCounts
    /\ nshift = NoCounts
    /\ \E url \in KnownUrls \cup {<<"x">>}, op \in OutputPaths, n \in -MaxShift..MaxShift :
        /\ pipe = [pc |-> "first", url |-> url, output_path |-> op, semitones |-> n,
                   run1 |-> NoRun, run2 |-> NoRun]
        \* the cache as earlier requests may have left it
        /\ \E cached \in SUBSET {mp3_filename(op, Title(<<"u">>)),
                                 output_file_of(mp3_filename(op, Title(<<"u">>)), 1)} :
            files = cached

RunFirst ==
    /\ pipe.pc = "first"
    /\ \E net \in NetCases, dsp \in DspCases :
        LET r == pipeline(pipe.url, pipe.output_path, pipe.semitones, files, net, dsp)
        IN  /\ pipe' = [pipe EXCEPT !.pc = "second",
                                    !.run1 = [ok |-> r.ok, audio_file |-> r.audio_file,
                                              out |-> r.out,
                                              transferred |-> r.transferred,
                                              shifted |-> r.shifted, before |-> files]]
            /\ files' = r.disk
    /\ UNCHANGED <<boot, hs, handled, nxfer, nshift>>

RunSecond ==
    /\ pipe.pc = "second"
    /\ \E net \in NetCases, dsp \in DspCases :
        LET r == pipeline(pipe.url, pipe.output_path, pipe.semitones, files, net, dsp)
        IN  /\ pipe' = [pipe EXCEPT !.pc = "done",
                                    !.run2 = [ok |-> r.ok, audio_file |-> r.audio_file,
                                              out |-> r.out,
                                              transferred |-> r.transferred,
                                              shifted |-> r.shifted, before |-> files]]
            /\ files' = r.disk
    /\ UNCHANGED <<boot, hs, handled, nxfer, nshift>>

NextPipe == RunFirst \/ RunSecond

SpecPipe == InitPipe /\ [][NextPipe]_vars

----------------------------------------------------------------------------
(* The claims *)

Parts(h) == Split(h.text)
IsPrefix(a, b) == Len(a) <= Len(b) /\ a = SubSeq(b, 1, Len(a))
Over(h) == h.pc \in {"returned", "propagated"}

\* C1: a free-text message of one token whose handling raised nothing gets
\* exactly two replies, 'Downloaded content: <file name>' and then one audio
\* attachment, and the attached file is the path download_audio returned (a
\* file on disk, no pitch-shifted sibling); no error reply is sent.
C1_UrlAloneSendsOriginal ==
    \A s \in Slots :
        LET h == hs[s]
        IN  (h.kind = "text" /\ Len(Parts(h)) = 1 /\ h.pc = "returned" /\ ~h.raised)
            => /\ h.audio_path \in files
               /\ h.replies =
                    << [kind |-> "text",
                        body |-> <<"Downloaded content: ">> \o PathName(h.audio_path)],
                       [kind |-> "audio", body |-> h.audio_path] >>

\* C1's case: the handler of "v" has returned after a download of its own
C1_Witness ==
    \E s \in Slots :
        /\ hs[s].text = <<"v">> /\ hs[s].pc = "returned" /\ ~hs[s].raised
        /\ hs[s].transferred /\ Len(hs[s].replies) = 2

\* C2: the pipeline run twice in a row for the same URL and offset, both
\* runs succeeding, returns the same path both times, and the second run
\* neither transfers nor writes a pitch-shifted file: it leaves the disk as
\* it found it.
C2_SecondRunReuses ==
    (pipe.pc = "done" /\ pipe.run1.ok /\ pipe.run2.ok)
    => /\ pipe.run2.out = pipe.run1.out
       /\ ~pipe.run2.transferred
       /\ ~pipe.run2.shifted
       /\ files = pipe.run2.before

\* C2's case: the first run downloaded and shifted, the second succeeded too
C2_Witness ==
    /\ pipe.pc = "done" /\ pipe.run1.ok /\ pipe.run2.ok
    /\ pipe.run1.transferred /\ pipe.run1.shifted

\* The tag the claim C3 writes down: '(ST +|N|) <name>' or '(ST -|N|) <name>'
TaggedName(name, n) ==
    IF n > 0 THEN <<"(ST ", "+">> \o DecimalStr(n) \o <<") ">> \o name
    ELSE <<"(ST ", "-">> \o DecimalStr(-n) \o <<") ">> \o name

C3_TaggedSiblingInDownloads ==
    \A r \in {pipe.run1, pipe.run2} :
        (pipe.pc # "first" /\ r.ok /\ pipe.semitones # 0
            /\ pipe.output_path = DefaultOutputPath)
        => /\ PathParent(r.out) = PathParent(r.audio_file)
           /\ PathName(r.out) = TaggedName(PathName(r.audio_file), pipe.semitones)
           /\ \A m \in (-MaxShift..MaxShift) \ {0, pipe.semitones} :
                output_file_of(r.audio_file, m) # r.out

\* The step in which slot s has had its notice sent and so has called
\* lower_pitch (line 112)
LowerPitchCalled(s) ==
    hs[s].pc = "L111" /\ Len(hs'[s].replies) = Len(hs[s].replies) + 1

\* C4: with no second token, or a second token that parses to 0, the offset
\* is 0, and then lower_pitch returns the path of the downloaded file and the
\* files on disk are the same before and after the call: nothing is created.
C4_ZeroOffsetLeavesDisk ==
    [][\A s \in Slots :
        /\ (hs'[s].parsed /\ (Len(Parts(hs'[s])) = 1
                              \/ (Len(Parts(hs'[s])) = 2
                                  /\ Parts(hs'[s])[2] \in {<<"0">>, <<"-", "0">>})))
           => hs'[s].semitones = 0
        /\ (LowerPitchCalled(s) /\ hs[s].semitones = 0)
           => /\ files' = files
              /\ nshift' = nshift
              /\ hs'[s].processed_file = hs[s].audio_path
              /\ ~hs'[s].shifted
              /\ hs'[s].pc = "L116"]_vars

\* C4's case: "u -0" has been through lower_pitch
C4_Witness ==
    \E s \in Slots :
        /\ hs[s].text = <<"u", " ", "-", "0">> /\ hs[s].pc = "L116"
        /\ hs[s].processed_file = hs[s].audio_path

\* C5: every failure raised while a free-text message is handled is caught
\* inside download_url and turned into an 'Error: ...' reply; none leaves
\* the handler.
C5_EveryFailureBecomesAReply ==
    \A s \in Slots :
        LET h == hs[s]
        IN  (h.kind = "text" /\ h.raised /\ Over(h))
            => /\ h.pc = "returned"
               /\ h.replies # <<>>
               /\ h.replies[Len(h.replies)] = [kind |-> "text",
                                               body |-> <<"Error: ", h.err>>]

\* C6 as claimed: with more than two tokens the pipeline runs with parts[1]
\* as the offset.
C6_SecondTokenIsTheOffset ==
    \A s \in Slots :
        LET h == hs[s]
        IN  (h.kind = "text" /\ Len(Parts(h)) > 2 /\ h.parsed)
            => /\ int(Parts(h)[2]).ok
               /\ h.semitones = int(Parts(h)[2]).val

\* C6, amended: with more than two tokens download_url first sends 'Invalid
\* text format ...'; once that reply is sent it does not stop but runs the
\* pipeline with parts[0] as the URL and the offset 0: parts[1] is not
\* parsed (never a ValueError), and a handling that raises nothing ends with
\* the invalid-format reply, the notice and the unshifted file.
C6_ThreeTokensRunWithOffsetZero ==
    \A s \in Slots :
        LET h == hs[s]
        IN  (h.kind = "text" /\ Len(Parts(h)) > 2)
            => /\ h.replies # <<>> => h.replies[1].body = InvalidText
               /\ h.pc \notin {"idle", "L104", "propagated"} => h.replies # <<>>
               /\ h.err # "ValueError"
               /\ h.parsed => h.semitones = 0
               /\ h.audio_path # <<>>
                  => h.audio_path = mp3_filename(DefaultOutputPath, Title(Parts(h)[1]))
               /\ h.pc = "returned" => Len(h.replies) >= 2
               /\ (h.pc = "returned" /\ ~h.raised)
                  => h.replies = << [kind |-> "text", body |-> InvalidText],
                                    [kind |-> "text",
                                     body |-> <<"Downloaded content: ">>
                                              \o PathName(h.audio_path)],
                                    [kind |-> "audio", body |-> h.audio_path] >>

\* C6's case: "u 1 x" was answered with the unshifted file
C6_Witness ==
    \E s \in Slots :
        /\ hs[s].text = <<"u", " ", "1", " ", "x">>
        /\ hs[s].pc = "returned" /\ ~hs[s].raised /\ Len(hs[s].replies) = 3

\* C7: the listener is started (and the handlers registered) only after the
\* identity query was made with the loaded token and answered 200 with a
\* falsy "ok"; an answer other than 200 ends main in the assertion, an answer
\* of 200 with a true "ok" prints the notice and returns, and neither
\* registers a handler or starts the listener.
C7_StartupGate ==
    LET answered == boot.queried /\ boot.status \in StatusCases
        pastGate == boot.pc \notin {"load_password", "getMe", "gate"}
    IN  /\ (boot.registered \/ boot.pc \in {"build", "polling"})
           => /\ boot.loaded /\ answered
              /\ boot.queryToken = boot.token
              /\ boot.status = 200
              /\ boot.body \in {"ok_false", "ok_missing"}
        /\ boot.pc = "polling" => boot.registered
        /\ (answered /\ pastGate /\ boot.status # 200)
           => boot.pc = "AssertionError"
        /\ (answered /\ pastGate /\ boot.status = 200 /\ boot.body = "ok_true")
           => boot.pc = "returned"
        /\ boot.pc = "AssertionError"
           => answered /\ boot.status # 200 /\ ~boot.registered /\ boot.printed = <<>>
        /\ boot.pc = "returned"
           => /\ answered /\ boot.status = 200 /\ boot.body = "ok_true"
              /\ ~boot.registered /\ boot.printed = <<"already running">>

\* C7's case: the listener runs on a token decrypted from the file
C7_Witness ==
    boot.pc = "polling" /\ boot.keyExists /\ boot.tokenExists /\ boot.body = "ok_missing"

\* t is out without the white space around it
IsStripOf(t, out) ==
    \E i \in 0..Len(out), j \in 0..Len(out) :
        /\ i <= j
        /\ t = SubSeq(out, i + 1, j)
        /\ \A k \in 1..i : IsSpace(out[k])
        /\ \A k \in (j + 1)..Len(out) : IsSpace(out[k])
        /\ t # <<>> => ~IsSpace(t[1]) /\ ~IsSpace(t[Len(t)])
        /\ t = <<>> => \A k \in 1..Len(out) : IsSpace(out[k])

BothFiles == boot.keyExists /\ boot.tokenExists

\* What C8 says of the encrypted file, which is not amended
C8_FromFile ==
    /\ (BothFiles /\ boot.age.ok)
       => boot.loaded /\ IsStripOf(boot.token, boot.age.stdout) /\ ~boot.prompted
    /\ (BothFiles /\ ~boot.age.ok)
       => boot.pc = "raised" /\ ~boot.loaded /\ ~boot.prompted /\ ~boot.queried

\* C8 as claimed: ... otherwise, if TOKEN is set, its value is returned and
\* the operator is not prompted; otherwise the prompted value is returned.
C8_EnvWheneverSet ==
    boot.pc # "load_password"
    => /\ C8_FromFile
       /\ (~BothFiles /\ boot.env.set)
          => boot.loaded /\ boot.token = boot.env.val /\ ~boot.prompted
       /\ (~BothFiles /\ ~boot.env.set)
          => boot.loaded /\ boot.token = boot.typed /\ boot.prompted

\* C8, amended: ... otherwise, if TOKEN is set to a non-empty value, that
\* value is returned and the operator is not prompted; otherwise (TOKEN
\* unset, or set to the empty string) the prompted value is returned.
C8_EnvWhenNonEmpty ==
    boot.pc # "load_password"
    => /\ C8_FromFile
       /\ (~BothFiles /\ boot.env.set /\ boot.env.val # <<>>)
          => boot.loaded /\ boot.token = boot.env.val /\ ~boot.prompted
       /\ (~BothFiles /\ (~boot.env.set \/ boot.env.val = <<>>))
          => boot.loaded /\ boot.token = boot.typed /\ boot.prompted

\* C8's case: TOKEN is set but empty, and the operator was asked
C8_Witness ==
    /\ boot.pc = "getMe" /\ ~BothFiles
    /\ boot.env.set /\ boot.env.val = <<>> /\ boot.prompted

\* C9: a /start handling sends the introduction and then the usage text of
\* /help, in that order and nothing else (both once it has returned); a
\* /help handling sends the usage text alone.
C9_StartThenHelp ==
    \A s \in Slots :
        LET h == hs[s]
            intro == [kind |-> "text", body |-> IntroText]
            usage == [kind |-> "text", body |-> UsageText]
        IN  /\ h.kind = "start"
               => /\ IsPrefix(h.replies, <<intro, usage>>)
                  /\ h.pc = "returned" => h.replies = <<intro, usage>>
                  /\ h.pc = "L89" => h.replies = <<intro>>
            /\ h.kind = "help"
               => /\ IsPrefix(h.replies, <<usage>>)
                  /\ h.pc = "returned" => h.replies = <<usage>>

\* C9's case: a /start handling has returned
C9_Witness ==
    \E s \in Slots : hs[s].kind = "start" /\ hs[s].pc = "returned"

====
